---- MODULE Spec2Model ----
(***************************************************************************)
(* Carbon arbitrage app (carbon_arbitrage_streamlit_app.py).               *)
(*                                                                         *)
(* Numbers.  The program computes in Python floats.  The model keeps the   *)
(* arithmetic of the program but computes in two exact number systems:     *)
(*   Rat  - rationals <<n, d>> in lowest terms (d > 0): the scenario       *)
(*          series, the interpolator, the emission totals and the benefit; *)
(*   Dec  - finite decimals of any length (sign, base-10000 limbs, number  *)
(*          of fractional limbs): the discount rate, the discount factors, *)
(*          the energy conversions and the cost.  +, - and * are exact;    *)
(*          a quotient or a power that does not terminate is truncated     *)
(*          after FracLimbs fractional limbs, as a float is rounded.       *)
(***************************************************************************)
EXTENDS Integers, Sequences, FiniteSets, TLC

VARIABLES
  slider_scc,    \* the three sliders, as the session holds them
  slider_lcoe,
  slider_beta,
  df_ngfs,     \* the module's data frame
  result,      \* main's figures after its last run, or the exception it raised
  evaluated,   \* the years and deltats the last run evaluated
  runs,        \* the script runs of the session so far
  history,     \* what every run so far was given and what it produced
  call,        \* an engine function called on its own, with its arguments
  ret          \* what that call returned or raised

vars == <<slider_scc, slider_lcoe, slider_beta, df_ngfs, result, evaluated, runs, history,
         call, ret>>

app_vars == <<slider_scc, slider_lcoe, slider_beta, df_ngfs, result, evaluated, runs, history>>

(***************************************************************************)
(* Rationals in lowest terms.  An operation's operands are evaluated       *)
(* first, as Python evaluates them: RAdd, RMul (and DecAdd, DecMul, DecDiv *)
(* below) take the values of their operands and apply the operation.       *)
(***************************************************************************)
Abs(x) == IF x < 0 THEN -x ELSE x

RECURSIVE Gcd(_, _)
Gcd(a, b) == IF b = 0 THEN a ELSE Gcd(b, a % b)

RNorm(n, d) ==
  LET g == Gcd(Abs(n), Abs(d))
      s == IF d < 0 THEN -1 ELSE 1
  IN  IF n = 0 THEN <<0, 1>> ELSE <<s * (n \div g), s * (d \div g)>>

RInt(k) == <<k, 1>>

RSum(a, b) ==
  LET g == Gcd(a[2], b[2])
  IN  RNorm(a[1] * (b[2] \div g) + b[1] * (a[2] \div g), (a[2] \div g) * b[2])

RAdd(a, b) == CHOOSE r \in {RSum(x, y) : x \in {a}, y \in {b}} : TRUE

RNeg(a) == <<-a[1], a[2]>>

RSub(a, b) == RAdd(a, RNeg(b))

\* cross-cancelling product: the factors are reduced before they are multiplied
RProduct(a, b) ==
  LET g1 == Gcd(Abs(a[1]), b[2])
      g2 == Gcd(Abs(b[1]), a[2])
  IN  RNorm((a[1] \div g1) * (b[1] \div g2), (a[2] \div g2) * (b[2] \div g1))

RMul(a, b) == CHOOSE r \in {RProduct(x, y) : x \in {a}, y \in {b}} : TRUE

\* b # 0
RDiv(a, b) == RMul(a, IF b[1] < 0 THEN <<-b[2], -b[1]>> ELSE <<b[2], b[1]>>)

RSign(a) == IF a[1] > 0 THEN 1 ELSE IF a[1] < 0 THEN -1 ELSE 0

RLess(a, b) == RSign(RSub(a, b)) < 0

RLeq(a, b) == RSign(RSub(a, b)) <= 0

(***************************************************************************)
(* Natural numbers of any length: little-endian sequences of base-W limbs  *)
(* without leading zero limbs; zero is << >>.                              *)
(***************************************************************************)
W == 10 ^ 4

RECURSIVE BigNorm(_)
BigNorm(s) ==
  IF s = << >> THEN s
  ELSE IF s[Len(s)] = 0 THEN BigNorm(SubSeq(s, 1, Len(s) - 1)) ELSE s

\* the natural k < W^3 as a bignum
BigOfInt(k) == BigNorm(<<k % W, (k \div W) % W, k \div (W * W)>>)

Limb(s, i) == IF i <= Len(s) THEN s[i] ELSE 0

RECURSIVE BigAddFrom(_, _, _, _)
BigAddFrom(a, b, i, carry) ==
  IF i > Len(a) /\ i > Len(b)
  THEN IF carry = 0 THEN << >> ELSE <<carry>>
  ELSE LET t == Limb(a, i) + Limb(b, i) + carry
       IN  <<t % W>> \o BigAddFrom(a, b, i + 1, t \div W)

BigAdd(a, b) == BigAddFrom(a, b, 1, 0)

\* a >= b
RECURSIVE BigSubFrom(_, _, _, _)
BigSubFrom(a, b, i, borrow) ==
  IF i > Len(a) THEN << >>
  ELSE LET t == Limb(a, i) - Limb(b, i) - borrow
       IN  IF t < 0 THEN <<t + W>> \o BigSubFrom(a, b, i + 1, 1)
           ELSE <<t>> \o BigSubFrom(a, b, i + 1, 0)

BigSub(a, b) == BigNorm(BigSubFrom(a, b, 1, 0))

RECURSIVE BigCmpFrom(_, _, _)
BigCmpFrom(a, b, i) ==
  IF i = 0 THEN 0
  ELSE IF a[i] < b[i] THEN -1
  ELSE IF a[i] > b[i] THEN 1
  ELSE BigCmpFrom(a, b, i - 1)

\* -1, 0, 1 as a < b, a = b, a > b
BigCmp(a, b) ==
  IF Len(a) < Len(b) THEN -1
  ELSE IF Len(a) > Len(b) THEN 1
  ELSE BigCmpFrom(a, b, Len(a))

\* 0 <= k < W
RECURSIVE BigMulSmallFrom(_, _, _, _)
BigMulSmallFrom(a, k, i, carry) ==
  IF i > Len(a)
  THEN IF carry = 0 THEN << >> ELSE <<carry>>
  ELSE LET t == a[i] * k + carry
       IN  <<t % W>> \o BigMulSmallFrom(a, k, i + 1, t \div W)

BigMulSmall(a, k) == BigNorm(BigMulSmallFrom(a, k, 1, 0))

\* a * W^n
BigShift(a, n) == IF a = << >> THEN a ELSE [i \in 1..n |-> 0] \o a

RECURSIVE BigMulFrom(_, _, _)
BigMulFrom(a, b, j) ==
  IF j > Len(b) THEN << >>
  ELSE BigAdd(BigShift(BigMulSmall(a, b[j]), j - 1), BigMulFrom(a, b, j + 1))

BigMul(a, b) == BigMulFrom(a, b, 1)

\* the largest q in lo..hi with q * b <= r (lo * b <= r is given)
RECURSIVE QuotLimb(_, _, _, _)
QuotLimb(r, b, lo, hi) ==
  IF lo >= hi THEN lo
  ELSE LET mid == (lo + hi + 1) \div 2
       IN  IF BigCmp(BigMulSmall(b, mid), r) <= 0
           THEN QuotLimb(r, b, mid, hi)
           ELSE QuotLimb(r, b, lo, mid - 1)

\* long division: the quotient limbs, most significant first, from a's limb i
\* down; r < b is the remainder of the limbs above i
RECURSIVE BigDivFrom(_, _, _, _)
BigDivFrom(a, b, i, r) ==
  IF i = 0 THEN << >>
  ELSE LET r1 == BigNorm(<<a[i]>> \o r)
           top == Limb(r1, Len(b) + 1) * W + Limb(r1, Len(b))
           hi == top \div b[Len(b)]
           q == QuotLimb(r1, b, top \div (b[Len(b)] + 1),
                         IF hi > W - 1 THEN W - 1 ELSE hi)
       IN  <<q>> \o BigDivFrom(a, b, i - 1, BigSub(r1, BigMulSmall(b, q)))

\* division by the one limb k: the quotient limbs, most significant first
RECURSIVE BigDivSmallFrom(_, _, _, _)
BigDivSmallFrom(a, k, i, r) ==
  IF i = 0 THEN << >>
  ELSE LET t == r * W + a[i]
       IN  <<t \div k>> \o BigDivSmallFrom(a, k, i - 1, t % k)

\* floor(a / b), b # 0.  For a longer b both are first scaled so that b's top
\* limb is at least W / 2, which leaves the quotient as it is and makes the
\* estimate of each quotient limb from the top limbs close
BigDiv(a, b) ==
  LET d == W \div (b[Len(b)] + 1)
      a1 == BigMulSmall(a, d)
      b1 == BigMulSmall(b, d)
      q == IF Len(b) = 1 THEN BigDivSmallFrom(a, b[1], Len(a), 0)
           ELSE BigDivFrom(a1, b1, Len(a1), << >>)
  IN  BigNorm([i \in 1..Len(q) |-> q[Len(q) + 1 - i]])

(***************************************************************************)
(* Finite decimals: [neg, mag, f] is (-1)^neg * mag / W^f, with mag a      *)
(* bignum.  In normal form mag has no zero low limb unless f = 0, and zero *)
(* is not negative, so that equal numbers are equal records.               *)
(***************************************************************************)
\* the fractional limbs kept by a quotient that does not terminate
FracLimbs == 4

RECURSIVE DecNorm(_, _, _)
DecNorm(neg, mag, f) ==
  IF mag = << >> THEN [neg |-> FALSE, mag |-> << >>, f |-> 0]
  ELSE IF f > 0 /\ mag[1] = 0 THEN DecNorm(neg, Tail(mag), f - 1)
  ELSE [neg |-> neg, mag |-> mag, f |-> f]

\* the decimal whose limbs, most significant first, are hi, with the last f
\* of them after the decimal point: Dec(<<29, 3076>>, 1) is 29.3076
Dec(hi, f) == DecNorm(FALSE, BigNorm([i \in 1..Len(hi) |-> hi[Len(hi) + 1 - i]]), f)

\* the integer k
DecInt(k) == DecNorm(k < 0, BigOfInt(Abs(k)), 0)

\* 10^(4 * n)
DecPow10000(n) == DecNorm(FALSE, BigShift(<<1>>, n), 0)

DecZero == DecInt(0)

DecOne == DecInt(1)

DecSign(a) == IF a.mag = << >> THEN 0 ELSE IF a.neg THEN -1 ELSE 1

DecNeg(a) == IF a.mag = << >> THEN a ELSE [neg |-> ~a.neg, mag |-> a.mag, f |-> a.f]

\* a's magnitude in units of W^(-f), f >= a.f
Scaled(a, f) == BigShift(a.mag, f - a.f)

DecSum(a, b) ==
  IF a.mag = << >> THEN b
  ELSE IF b.mag = << >> THEN a
  ELSE LET f == IF a.f > b.f THEN a.f ELSE b.f
           x == Scaled(a, f)
           y == Scaled(b, f)
       IN  IF a.neg = b.neg THEN DecNorm(a.neg, BigAdd(x, y), f)
           ELSE IF BigCmp(x, y) >= 0 THEN DecNorm(a.neg, BigSub(x, y), f)
           ELSE DecNorm(b.neg, BigSub(y, x), f)

DecAdd(a, b) == CHOOSE r \in {DecSum(x, y) : x \in {a}, y \in {b}} : TRUE

DecSub(a, b) == DecAdd(a, DecNeg(b))

DecProduct(a, b) ==
  IF a.mag = << >> \/ b.mag = << >> THEN DecZero
  ELSE DecNorm(a.neg # b.neg, BigMul(a.mag, b.mag), a.f + b.f)

DecMul(a, b) == CHOOSE r \in {DecProduct(x, y) : x \in {a}, y \in {b}} : TRUE

\* a cut after k fractional limbs (towards zero)
DecTrunc(a, k) ==
  IF a.f <= k THEN a
  ELSE DecNorm(a.neg, SubSeq(a.mag, a.f - k + 1, Len(a.mag)), k)

\* a / b cut after FracLimbs fractional limbs (towards zero); b # 0
DecQuotient(a, b) ==
  IF a.mag = << >> \/ b.mag = << >> THEN DecZero
  ELSE DecNorm(a.neg # b.neg,
               BigDiv(BigShift(a.mag, FracLimbs + b.f), BigShift(b.mag, a.f)),
               FracLimbs)

DecDiv(a, b) == CHOOSE r \in {DecQuotient(x, y) : x \in {a}, y \in {b}} : TRUE

\* a^n, n >= 0, by squaring; each product is cut after FracLimbs limbs
RECURSIVE DecPow(_, _)
DecPow(a, n) ==
  IF n = 0 THEN DecOne
  ELSE LET h == DecPow(a, n \div 2)
           sq == DecTrunc(DecMul(h, h), FracLimbs)
       IN  IF h.mag = << >> THEN DecZero
           ELSE IF n % 2 = 0 THEN sq
           ELSE DecTrunc(DecMul(sq, a), FracLimbs)

\* the rational n/d as a decimal (exact when it terminates within FracLimbs)
RatToDec(r) == DecDiv(DecInt(r[1]), DecInt(r[2]))

DecLess(a, b) == DecSign(DecSub(a, b)) < 0

(***************************************************************************)
(* Exceptions.  A call either returns a value or raises; an outcome is     *)
(* [err, val] with err = NoError and the value, or the kind of the         *)
(* exception and val = NoValue.                                            *)
(***************************************************************************)
NoError == "none"

NoValue == "no value"

\* pandas' .iloc[0] on an empty selection raises IndexError: the lookup's
\* "not found" failure
NotFoundError == "IndexError"

\* scipy's interp1d raises ValueError for an x_new outside its range: the
\* interpolator's "domain" failure
DomainError == "ValueError"

Ok(v) == [err |-> NoError, val |-> v]

Raise(kind) == [err |-> kind, val |-> NoValue]

\* "x = <call>; <rest using x>": an exception raised by the call leaves the
\* function at once, otherwise the rest runs with the value returned
Then(outcome, Rest(_)) == IF outcome.err # NoError THEN outcome ELSE Rest(outcome.val)

(***************************************************************************)
(* The dataset (CSV_DATA) and the data frame read from it.                 *)
(***************************************************************************)
Ints(cells) == [i \in DOMAIN cells |-> RInt(cells[i])]

\* the header line: the year columns, in order
CSV_HEADER == [i \in 1..19 |-> 2010 + 5 * (i - 1)]

CSV_DATA ==
  << [Scenario |-> "NGFS2_Current Policies", Variable |-> "Emissions|CO2",
      cells |-> Ints(<<27000, 32000, 34000, 33000, 32000, 31000, 30000, 29000,
                       28000, 27000, 26000, 25000, 24000, 23000, 22000, 21000,
                       20000, 19000, 18000>>)],
     [Scenario |-> "NGFS2_Current Policies", Variable |-> "Primary Energy|Coal",
      cells |-> Ints(<<100, 110, 105, 100, 95, 90, 85, 80, 75, 70, 65, 60, 55,
                       50, 45, 40, 35, 30, 25>>)],
     [Scenario |-> "NGFS2_Net-Zero 2050", Variable |-> "Emissions|CO2",
      cells |-> Ints(<<27000, 32000, 34000, 30000, 26000, 22000, 18000, 14000,
                       10000, 8000, 6000, 4000, 3000, 2000, 1500, 1000, 500,
                       400, 300>>)],
     [Scenario |-> "NGFS2_Net-Zero 2050", Variable |-> "Primary Energy|Coal",
      cells |-> Ints(<<100, 110, 105, 95, 85, 70, 60, 45, 30, 25, 20, 15, 10,
                       5, 4, 3, 2, 1>>) \o << <<1, 2>> >>] >>

\* pd.read_csv: one row per data line, the year columns keyed by the header
read_csv(csv) ==
  [r \in DOMAIN csv |->
     [Scenario |-> csv[r].Scenario, Variable |-> csv[r].Variable,
      cols |-> [y \in {CSV_HEADER[i] : i \in DOMAIN CSV_HEADER} |->
                  csv[r].cells[CHOOSE i \in DOMAIN CSV_HEADER : CSV_HEADER[i] = y]]]]

ngfs_years == [i \in 1..19 |-> 2010 + 5 * (i - 1)]

\* range(2023, 2102): one year past the last knot
full_years_through_2101 == [i \in 1..79 |-> 2022 + i]

full_years == [i \in 1..78 |-> 2022 + i]

(***************************************************************************)
(* scipy.interpolate.interp1d, kind "linear", bounds_error as by default.  *)
(***************************************************************************)
interp1d(x, y) == [x |-> x, y |-> y]

\* numpy.searchsorted(x, v): how many knots lie strictly below v
searchsorted(x, v) == Cardinality({i \in DOMAIN x : x[i] < v})

Clip(k, lo, hi) == IF k < lo THEN lo ELSE IF k > hi THEN hi ELSE k

\* kind "previous": the value of the knot at or below x_new
Evaluate_previous(f, x_new) ==
  IF x_new < f.x[1] \/ x_new > f.x[Len(f.x)] THEN Raise(DomainError)
  ELSE Ok(f.y[Cardinality({i \in DOMAIN f.x : f.x[i] <= x_new})])

\* fill_value "extrapolate": outside the knots the nearest segment is continued
Evaluate_extrapolating(f, x_new) ==
  LET hi == Clip(searchsorted(f.x, x_new), 1, Len(f.x) - 1) + 1
      lo == hi - 1
      slope == RDiv(RSub(f.y[hi], f.y[lo]), RInt(f.x[hi] - f.x[lo]))
  IN  Ok(RAdd(RMul(slope, RInt(x_new - f.x[lo])), f.y[lo]))

\* f(x_new) for an integer x_new
Evaluate(f, x_new) ==
  IF x_new < f.x[1] \/ x_new > f.x[Len(f.x)] THEN Raise(DomainError)
  ELSE LET hi == Clip(searchsorted(f.x, x_new), 1, Len(f.x) - 1) + 1
           lo == hi - 1
           slope == RDiv(RSub(f.y[hi], f.y[lo]), RInt(f.x[hi] - f.x[lo]))
       IN  Ok(RAdd(RMul(slope, RInt(x_new - f.x[lo])), f.y[lo]))

(***************************************************************************)
(* The discount rate, the discount factor and the unit conversions.        *)
(***************************************************************************)
rho_f == Dec(<<0, 208>>, 1)

carp_base == Dec(<<0, 299>>, 1)

surcharge == Dec(<<0, 100>>, 1)

lambda == Dec(<<0, 5175, 2734, 9044, 9868>>, 4)

tax_rate == Dec(<<0, 1500>>, 1)

\* the surcharge left out
calculate_rho_without_surcharge(beta) ==
  DecAdd(DecMul(DecMul(lambda, rho_f), DecSub(DecOne, tax_rate)),
         DecMul(DecSub(DecOne, lambda), DecAdd(rho_f, DecMul(beta, carp_base))))

\* carp kept between the calls: the surcharge is taken off once more in every
\* run (carp is what the runs so far have left of it)
calculate_rho_accumulating(beta) ==
  CHOOSE rho \in {DecAdd(DecMul(DecMul(lambda, rho_f), DecSub(DecOne, tax_rate)),
                         DecMul(DecSub(DecOne, lambda), DecAdd(rho_f, DecMul(beta, carp)))) :
                    carp \in {DecSub(carp_base, DecMul(DecInt(n), surcharge)) :
                                n \in {runs + 1}}} : TRUE

calculate_rho(beta) ==
  LET carp == DecSub(carp_base, surcharge)
  IN  DecAdd(DecMul(DecMul(lambda, rho_f), DecSub(DecOne, tax_rate)),
             DecMul(DecSub(DecOne, lambda), DecAdd(rho_f, DecMul(beta, carp))))

(***************************************************************************)
(* Short decimals: a native integer n stands for n / 10^8.  The discount   *)
(* factors are computed in them: products and quotients are cut after the  *)
(* eighth decimal (towards zero), as a float product is rounded.           *)
(***************************************************************************)
ShortOne == 10 ^ 8

\* floor(a * b / 10^8) for a, b >= 0, by halves of four digits
ShortMul(a, b) ==
  LET a1 == a \div W
      a0 == a % W
      b1 == b \div W
      b0 == b % W
  IN  a1 * b1 + (a1 * b0 + a0 * b1 + (a0 * b0) \div W) \div W

\* the next n decimal digits of r / b, for 0 <= r < b
RECURSIVE ShortDivDigits(_, _, _)
ShortDivDigits(r, b, n) ==
  IF n = 0 THEN 0
  ELSE ((r * 10) \div b) * 10 ^ (n - 1) + ShortDivDigits((r * 10) % b, b, n - 1)

\* floor(a * 10^8 / b) for a >= 0 and 0 < b < 2 * 10^8
ShortDiv(a, b) == (a \div b) * ShortOne + ShortDivDigits(a % b, b, 8)

\* a^n, n >= 0, by squaring
RECURSIVE ShortPow(_, _)
ShortPow(a, n) ==
  IF n = 0 THEN ShortOne
  ELSE LET h == ShortPow(a, n \div 2)
           sq == ShortMul(h, h)
       IN  IF n % 2 = 0 THEN sq ELSE ShortMul(sq, a)

\* the decimal a, cut after the eighth decimal, as a short decimal
DecToShort(a) ==
  LET m == Scaled(DecTrunc(a, 2), 2)
      n == Limb(m, 1) + Limb(m, 2) * W + Limb(m, 3) * W * W
  IN  IF a.neg THEN -n ELSE n

ShortToDec(n) == DecNorm(n < 0, BigOfInt(Abs(n)), 2)

\* (1 + rho) ** -deltat
calculate_discount(rho, deltat) ==
  LET x == ShortOne + DecToShort(rho)
  IN  ShortToDec(IF deltat >= 0 THEN ShortPow(ShortDiv(ShortOne, x), deltat)
                 ELSE ShortPow(x, -deltat))

EJ2MWh(x) ==
  LET joule == DecMul(x, DecMul(DecPow10000(4), DecInt(100)))
      wh == DecDiv(joule, DecInt(3600))
  IN  DecDiv(wh, DecInt(1000000))

EJ2Mcoal(x) ==
  LET coal == DecDiv(DecMul(x, DecInt(1000000000)), Dec(<<29, 3076>>, 1))
  IN  DecDiv(coal, DecInt(1000000))

coal_emissions_2022_iea == <<31, 2>>

(***************************************************************************)
(* The interpolation and aggregation engine.                               *)
(***************************************************************************)
\* the first of the years at which f raises, 0 when it raises at none
FirstFailing(f, years) ==
  LET failing == {i \in DOMAIN years : Evaluate(f, years[i]).err # NoError}
  IN  IF failing = {} THEN 0 ELSE CHOOSE i \in failing : \A j \in failing : i <= j

\* f(years[lo]) + ... + f(years[hi]) where f raises at none of them; the
\* exact sum is split in halves, which keeps the recursion shallow
RECURSIVE SumValues(_, _, _, _)
SumValues(f, years, lo, hi) ==
  IF lo = hi THEN Evaluate(f, years[lo]).val
  ELSE RAdd(SumValues(f, years, lo, (lo + hi) \div 2),
            SumValues(f, years, (lo + hi) \div 2 + 1, hi))

\* sum(f(y) for y in years): the exception of the first f(y) that raises
\* leaves the sum
SumInterpolated(f, years) ==
  IF FirstFailing(f, years) # 0 THEN Evaluate(f, years[FirstFailing(f, years)])
  ELSE IF years = << >> THEN Ok(RInt(0))
  ELSE Ok(SumValues(f, years, 1, Len(years)))

\* line 58 left out: the sum is not rescaled
aggregate_emissions_not_rescaled(emissions_row, projection_years, reference_year, reference_value) ==
  LET emissions_values ==
        [i \in DOMAIN ngfs_years |-> RDiv(emissions_row[ngfs_years[i]], RInt(1000))]
      f_e == interp1d(ngfs_years, emissions_values)
  IN  Then(SumInterpolated(f_e, projection_years),
           LAMBDA total_emissions :
      Then(Evaluate(f_e, reference_year), LAMBDA f_e_ref :
      Ok(total_emissions)))

\* the ratio taken at the first projection year, not at the reference year
aggregate_emissions_ratio_at_first_year(emissions_row, projection_years, reference_year, reference_value) ==
  LET emissions_values ==
        [i \in DOMAIN ngfs_years |-> RDiv(emissions_row[ngfs_years[i]], RInt(1000))]
      f_e == interp1d(ngfs_years, emissions_values)
  IN  Then(SumInterpolated(f_e, projection_years),
           LAMBDA total_emissions :
      Then(Evaluate(f_e, reference_year), LAMBDA f_e_checked :
      Then(Evaluate(f_e, projection_years[1]), LAMBDA f_e_ref :
      Ok(RMul(total_emissions, RDiv(reference_value, f_e_ref))))))

aggregate_emissions(emissions_row, projection_years, reference_year, reference_value) ==
  LET emissions_values ==
        [i \in DOMAIN ngfs_years |-> RDiv(emissions_row[ngfs_years[i]], RInt(1000))]
      f_e == interp1d(ngfs_years, emissions_values)
  IN  Then(SumInterpolated(f_e, projection_years),
           LAMBDA total_emissions :
      Then(Evaluate(f_e, reference_year), LAMBDA f_e_ref :
      Ok(RMul(total_emissions, RDiv(reference_value, f_e_ref)))))

\* f_p(y) * calculate_discount(rho, y - base_year) summed over years[lo..hi],
\* where f_p raises at none of them
RECURSIVE SumDiscountedValues(_, _, _, _, _, _)
SumDiscountedValues(f_p, years, rho, base_year, lo, hi) ==
  IF lo = hi
  THEN DecMul(RatToDec(Evaluate(f_p, years[lo]).val),
              calculate_discount(rho, years[lo] - base_year))
  ELSE DecAdd(SumDiscountedValues(f_p, years, rho, base_year, lo, (lo + hi) \div 2),
              SumDiscountedValues(f_p, years, rho, base_year, (lo + hi) \div 2 + 1, hi))

\* sum(f_p(y) * calculate_discount(rho, y - base_year) for y in years)
SumDiscounted(f_p, years, rho, base_year) ==
  IF FirstFailing(f_p, years) # 0 THEN Evaluate(f_p, years[FirstFailing(f_p, years)])
  ELSE IF years = << >> THEN Ok(DecZero)
  ELSE Ok(SumDiscountedValues(f_p, years, rho, base_year, 1, Len(years)))

\* lines 62-68
aggregate_discounted_production(production_row, projection_years, rho, base_year) ==
  LET production_values == [i \in DOMAIN ngfs_years |-> production_row[ngfs_years[i]]]
      f_p == interp1d(ngfs_years, production_values)
  IN  SumDiscounted(f_p, projection_years, rho, base_year)

\* the years at which a run evaluates an interpolator (lines 56, 58, 67, 72)
\* and the deltat of its discount factors (line 67)
InterpolationYears == {full_years[i] : i \in DOMAIN full_years} \cup {2022}

DiscountDeltats == {full_years[i] - 2022 : i \in DOMAIN full_years}

\* .iloc[0] taken of the scenario's rows when the variable has none
FirstRow_of_scenario(scenario_df, variable) ==
  LET rows == SelectSeq(scenario_df, LAMBDA r : r.Variable = variable)
  IN  IF rows # << >> THEN Ok(rows[1].cols)
      ELSE IF scenario_df # << >> THEN Ok(scenario_df[1].cols)
      ELSE Raise(NotFoundError)

\* df[df.Variable == variable].iloc[0]: the first row of the variable
FirstRow(scenario_df, variable) ==
  LET rows == SelectSeq(scenario_df, LAMBDA r : r.Variable = variable)
  IN  IF rows = << >> THEN Raise(NotFoundError) ELSE Ok(rows[1].cols)

calculate_emissions_and_production(ngfs_scenario, df, user_beta) ==
  LET scenario_df == SelectSeq(df, LAMBDA r : r.Scenario = ngfs_scenario)
  IN  Then(FirstRow(scenario_df, "Emissions|CO2"), LAMBDA emissions_row :
      Then(aggregate_emissions(emissions_row, full_years, 2022, coal_emissions_2022_iea),
           LAMBDA total_emissions :
      Then(FirstRow(scenario_df, "Primary Energy|Coal"), LAMBDA production_row :
      Then(Ok(calculate_rho(user_beta)), LAMBDA rho :
      Then(aggregate_discounted_production(production_row, full_years, rho, 2022),
           LAMBDA production_discounted :
      Then(Evaluate(interp1d(ngfs_years,
                             [i \in DOMAIN ngfs_years |-> production_row[ngfs_years[i]]]),
                    2022),
           LAMBDA f_p_2022 :
      Ok([emissions |-> total_emissions,
          production_2022 |-> EJ2Mcoal(RatToDec(f_p_2022)),
          production_discounted |-> production_discounted])))))))

(***************************************************************************)
(* The cost-benefit calculator.                                            *)
(***************************************************************************)
\* lines 80-91
\* the production difference taken the other way round
cost_and_benefit_reversed(ep_cps, ep_nz2050, user_scc, user_lcoe) ==
  LET avoided_emissions == RSub(ep_cps.emissions, ep_nz2050.emissions)
      discounted_production_increase ==
        DecSub(ep_nz2050.production_discounted, ep_cps.production_discounted)
      discounted_production_increase_mwh == EJ2MWh(discounted_production_increase)
      cost == DecDiv(DecMul(user_lcoe, discounted_production_increase_mwh),
                     DecPow10000(3))
      benefit == RDiv(RMul(avoided_emissions, user_scc), RInt(1000))
  IN  [avoided_emissions |-> avoided_emissions, cost |-> cost,
       benefit |-> benefit, coal_prod_2022 |-> ep_cps.production_2022]

cost_and_benefit(ep_cps, ep_nz2050, user_scc, user_lcoe) ==
  LET avoided_emissions == RSub(ep_cps.emissions, ep_nz2050.emissions)
      discounted_production_increase ==
        DecSub(ep_cps.production_discounted, ep_nz2050.production_discounted)
      discounted_production_increase_mwh == EJ2MWh(discounted_production_increase)
      cost == DecDiv(DecMul(user_lcoe, discounted_production_increase_mwh),
                     DecPow10000(3))
      benefit == RDiv(RMul(avoided_emissions, user_scc), RInt(1000))
  IN  [avoided_emissions |-> avoided_emissions, cost |-> cost,
       benefit |-> benefit, coal_prod_2022 |-> ep_cps.production_2022]

\* the two scenarios taken for each other
calculate_cost_and_benefit_swapped(df, user_scc, user_lcoe, user_beta) ==
  Then(calculate_emissions_and_production("NGFS2_Net-Zero 2050", df, user_beta),
       LAMBDA ep_cps :
  Then(calculate_emissions_and_production("NGFS2_Current Policies", df, user_beta),
       LAMBDA ep_nz2050 :
  Ok(cost_and_benefit(ep_cps, ep_nz2050, user_scc, user_lcoe))))

calculate_cost_and_benefit(df, user_scc, user_lcoe, user_beta) ==
  Then(calculate_emissions_and_production("NGFS2_Current Policies", df, user_beta),
       LAMBDA ep_cps :
  Then(calculate_emissions_and_production("NGFS2_Net-Zero 2050", df, user_beta),
       LAMBDA ep_nz2050 :
  Ok(cost_and_benefit(ep_cps, ep_nz2050, user_scc, user_lcoe))))

(***************************************************************************)
(* The app.  Streamlit runs the whole script once when the page is opened  *)
(* and once more after every change of a widget: each run builds the       *)
(* data frame anew from CSV_DATA and calls main with the widgets' values.  *)
(***************************************************************************)
\* a session is followed for MaxRuns runs after its first
MaxRuns == 2

\* of the sliders' positions every SccStride-th (LcoeStride-th, BetaStride-th)
\* is tried, from the minimum up
SccStride == 10

LcoeStride == 50

BetaStride == 50

\* st.slider(label, min, max, value, step): the values a slider can be put to
\* are min + k * step <= max
\*   scc:  0.0 .. 200.0, step 5.0, initially 80.0
SccPositions == {RInt(5 * k) : k \in {j * SccStride : j \in 0..(40 \div SccStride)}}

SccDefault == RInt(80)

\*   lcoe: 0.0 .. 200.0, step 1.0, initially 59.25
LcoePositions == {DecInt(k) : k \in {j * LcoeStride : j \in 0..(200 \div LcoeStride)}}

LcoeDefault == Dec(<<59, 2500>>, 1)

\*   beta: 0.0 .. 2.0, step 0.01, initially 0.9132710997126332
BetaOfStep(k) == Dec(<<k \div 100, (k % 100) * 100>>, 1)

BetaPositions == {BetaOfStep(k) : k \in {j * BetaStride : j \in 0..(200 \div BetaStride)}}

BetaDefault == Dec(<<0, 9132, 7109, 9712, 6332>>, 4)

\* lines 112-115: the figures main computes (their two-decimal formatting for
\* display is presentation and is left out)
main(df, scc, lcoe, beta) ==
  Then(calculate_cost_and_benefit(df, scc, lcoe, beta), LAMBDA r :
  Ok([avoided_emissions |-> r.avoided_emissions,
      cost |-> r.cost,
      benefit |-> r.benefit,
      coal_prod_2022 |-> r.coal_prod_2022,
      carbon_arbitrage |-> DecSub(RatToDec(r.benefit), r.cost)]))

Idle == "idle"

\* one run of the script with the sliders at scc, lcoe, beta
Run(scc, lcoe, beta) ==
  /\ runs < MaxRuns
  /\ runs' = runs + 1
  /\ slider_scc' = scc
  /\ slider_lcoe' = lcoe
  /\ slider_beta' = beta
  /\ df_ngfs' = read_csv(CSV_DATA)
  /\ result' = main(df_ngfs', scc, lcoe, beta)
  /\ evaluated' = [years |-> InterpolationYears, deltats |-> DiscountDeltats]
  /\ history' = history \cup {[run |-> runs', scc |-> scc, lcoe |-> lcoe, beta |-> beta,
                                 result |-> result']}
  /\ UNCHANGED <<call, ret>>

Init ==
  /\ runs = 0
  /\ slider_scc = SccDefault
  /\ slider_lcoe = LcoeDefault
  /\ slider_beta = BetaDefault
  /\ df_ngfs = read_csv(CSV_DATA)
  /\ result = main(df_ngfs, slider_scc, slider_lcoe, slider_beta)
  /\ evaluated = [years |-> InterpolationYears, deltats |-> DiscountDeltats]
  /\ history = {[run |-> 0, scc |-> slider_scc, lcoe |-> slider_lcoe, beta |-> slider_beta,
                  result |-> result]}
  /\ call = [fn |-> Idle]
  /\ ret = Idle

MoveScc == \E v \in SccPositions \ {slider_scc} : Run(v, slider_lcoe, slider_beta)

MoveLcoe == \E v \in LcoePositions \ {slider_lcoe} : Run(slider_scc, v, slider_beta)

MoveBeta == \E v \in BetaPositions \ {slider_beta} : Run(slider_scc, slider_lcoe, v)

\* the page is reloaded: a new session, the sliders at their initial values
Reload == Run(SccDefault, LcoeDefault, BetaDefault)

Next == MoveScc \/ MoveLcoe \/ MoveBeta \/ Reload

Spec == Init /\ [][Next]_vars

(***************************************************************************)
(* The engine's functions called on their own: the interpolator with every *)
(* stored series and years in and around the knot range, the aggregation   *)
(* with datasets that lack a row, the discount rate with betas in and      *)
(* around the slider's range.  A call is made when none is under way, and its     *)
(* outcome is kept in ret until Return.                                    *)
(***************************************************************************)
\* the years tried reach ProbeMargin years beyond the first and the last knot
ProbeMargin == 5

ProbeYears == (2010 - ProbeMargin)..(2100 + ProbeMargin)

\* the betas tried are (k - BetaBelow) / 100 for k in 0..MaxBetaStep
MaxBetaStep == 400

BetaBelow == 100

ProbeBetas ==
  {DecSub(BetaOfStep(k), BetaOfStep(BetaBelow)) : k \in 0..MaxBetaStep} \cup {BetaDefault}

\* the values an interpolator is built on: the row's cells as stored
\* (line 62) or divided by 1e3 (line 53)
ValuesOf(cells, scale) == [i \in DOMAIN cells |-> RDiv(cells[i], RInt(scale))]

Interpolate ==
  /\ call.fn = Idle
  /\ \E r \in DOMAIN CSV_DATA, scale \in {1, 1000}, year \in ProbeYears :
       /\ call' = [fn |-> "interpolate", row |-> r, scale |-> scale, year |-> year]
       /\ ret' = Evaluate(interp1d(ngfs_years, ValuesOf(CSV_DATA[r].cells, scale)), year)
  /\ UNCHANGED app_vars

Return ==
  /\ call.fn # Idle
  /\ call' = [fn |-> Idle]
  /\ ret' = Idle
  /\ UNCHANGED app_vars

NextInterp == Interpolate \/ Return

SpecInterp == Init /\ [][NextInterp]_vars

\* the embedded dataset without its k-th row
Without(csv, k) == SubSeq(csv, 1, k - 1) \o SubSeq(csv, k + 1, Len(csv))

ProbeStores == {CSV_DATA} \cup {Without(CSV_DATA, k) : k \in DOMAIN CSV_DATA}

ProbeScenarios == {"NGFS2_Current Policies", "NGFS2_Net-Zero 2050", "NGFS2_Below 2C"}

\* the emissions row of a scenario of the embedded dataset
EmissionsRow(scenario) ==
  FirstRow(SelectSeq(read_csv(CSV_DATA), LAMBDA r : r.Scenario = scenario),
           "Emissions|CO2").val

\* reference values tried with a reference year: the external figure, and
\* the row's own value at that year as stored and as converted to Gt
ReferenceValues(scenario, reference_year) ==
  LET cells == [i \in DOMAIN ngfs_years |-> EmissionsRow(scenario)[ngfs_years[i]]]
      raw == Evaluate(interp1d(ngfs_years, cells), reference_year)
  IN  {coal_emissions_2022_iea}
        \cup (IF raw.err = NoError THEN {raw.val, RDiv(raw.val, RInt(1000))} ELSE {})

CallAggregateEmissions ==
  /\ call.fn = Idle
  /\ \E scenario \in {"NGFS2_Current Policies", "NGFS2_Net-Zero 2050"},
        reference_year \in ProbeYears :
       \E reference_value \in ReferenceValues(scenario, reference_year) :
         /\ call' = [fn |-> "aggregate_emissions", scenario |-> scenario,
                     reference_year |-> reference_year,
                     reference_value |-> reference_value]
         /\ ret' = aggregate_emissions(EmissionsRow(scenario), full_years,
                                       reference_year, reference_value)
  /\ UNCHANGED app_vars

CallEmissionsAndProduction ==
  /\ call.fn = Idle
  /\ \E csv \in ProbeStores, scenario \in ProbeScenarios, beta \in {DecZero, BetaDefault} :
       /\ call' = [fn |-> "calculate_emissions_and_production", csv |-> csv,
                   scenario |-> scenario, beta |-> beta]
       /\ ret' = calculate_emissions_and_production(scenario, read_csv(csv), beta)
  /\ UNCHANGED app_vars

CallCostAndBenefit ==
  /\ call.fn = Idle
  /\ \E csv \in ProbeStores :
       /\ call' = [fn |-> "calculate_cost_and_benefit", csv |-> csv]
       /\ ret' = calculate_cost_and_benefit(read_csv(csv), SccDefault, LcoeDefault,
                                            BetaDefault)
  /\ UNCHANGED app_vars

NextEngine ==
  CallAggregateEmissions \/ CallEmissionsAndProduction \/ CallCostAndBenefit \/ Return

SpecEngine == Init /\ [][NextEngine]_vars

CallRho ==
  /\ call.fn = Idle
  /\ \E beta \in ProbeBetas :
       /\ call' = [fn |-> "calculate_rho", beta |-> beta]
       /\ ret' = calculate_rho(beta)
  /\ UNCHANGED app_vars

NextRho == CallRho \/ Return

SpecRho == Init /\ [][NextRho]_vars

(***************************************************************************)
(* What the claims are stated with: the stored series and the straight     *)
(* line between two knots, written out from the knots themselves.          *)
(***************************************************************************)
CurrentPolicies == "NGFS2_Current Policies"

NetZero2050 == "NGFS2_Net-Zero 2050"

Emissions == "Emissions|CO2"

Coal == "Primary Energy|Coal"

\* the 19 stored values of a series of the embedded dataset, in its native unit
StoredSeries(scenario, variable) ==
  LET row == CHOOSE r \in {CSV_DATA[i] : i \in DOMAIN CSV_DATA} :
               r.Scenario = scenario /\ r.Variable = variable
  IN  row.cells

\* the value at year (2010 <= year <= 2100) of the straight lines through the
\* knots of series: the stored value at a knot year, and between two knots
\*   lower + (year - lower_year) * (upper - lower) / (upper_year - lower_year)
Line(series, year) ==
  LET i == (year - 2010) \div 5 + 1
      lower_year == 2010 + 5 * (i - 1)
  IN  IF year = lower_year THEN series[i]
      ELSE RAdd(series[i],
                RDiv(RMul(RInt(year - lower_year), RSub(series[i + 1], series[i])),
                     RInt((lower_year + 5) - lower_year)))

\* the sum of Line(series, y) over the years first..last
RECURSIVE SumLine(_, _, _)
SumLine(series, first, last) ==
  IF first = last THEN Line(series, first)
  ELSE RAdd(SumLine(series, first, (first + last) \div 2),
            SumLine(series, (first + last) \div 2 + 1, last))

\* a scenario's emissions total in Gt: its own 2023..2100 sum rescaled by
\* 15.5 / (its own interpolated 2022 value)
RescaledTotal(scenario) ==
  LET series == StoredSeries(scenario, Emissions)
  IN  RMul(RDiv(SumLine(series, 2023, 2100), RInt(1000)),
           RDiv(<<31, 2>>, RDiv(Line(series, 2022), RInt(1000))))

(***************************************************************************)
(* The claims about the engine's functions.                                *)
(***************************************************************************)
\* the series the interpolator of the call under way was built on
CalledSeries == ValuesOf(CSV_DATA[call.row].cells, call.scale)

\* C1: for each of the four stored series, interpolate(series, knot_year) is
\* the stored value at that knot exactly, and at a year strictly between two
\* consecutive knots it is the straight-line value between those two knots
InterpolationExactAndLinear ==
  (call.fn = "interpolate" /\ 2010 <= call.year /\ call.year <= 2100)
    => /\ ret.err = NoError
       /\ \A i \in DOMAIN ngfs_years :
            call.year = ngfs_years[i] => ret.val = CalledSeries[i]
       /\ \A i \in 1..(Len(ngfs_years) - 1) :
            (ngfs_years[i] < call.year /\ call.year < ngfs_years[i + 1])
              => ret.val = RAdd(CalledSeries[i],
                                RDiv(RMul(RInt(call.year - ngfs_years[i]),
                                          RSub(CalledSeries[i + 1], CalledSeries[i])),
                                     RInt(ngfs_years[i + 1] - ngfs_years[i])))

InterpolationExactAndLinearSeen ==
  /\ call.fn = "interpolate"
  /\ call.row = 4 /\ call.scale = 1 /\ call.year = 2098
  /\ ret = Ok(<<7, 10>>)

\* C2: interpolate(series, year) with a year below 2010 or above 2100 fails
\* with DomainError and returns no value; it does not extrapolate
OutsideKnotsDomainError ==
  (call.fn = "interpolate" /\ (call.year < 2010 \/ call.year > 2100))
    => ret.err = DomainError /\ ret.val = NoValue

OutsideKnotsDomainErrorSeen ==
  /\ call.fn = "interpolate"
  /\ call.year = 2101
  /\ ret.err = DomainError

\* a dataset has no row of the scenario for the emissions or for the coal
\* variable (an unknown scenario has neither)
Lacks(csv, scenario) ==
  \E variable \in {Emissions, Coal} :
    \A i \in DOMAIN csv : ~(csv[i].Scenario = scenario /\ csv[i].Variable = variable)

\* C3: run for a scenario that is not in the dataset, or that lacks the
\* emissions or the coal row, the pipeline fails with NotFoundError and
\* returns nothing; what it returns otherwise has all its fields
LookupFailsWhole ==
  /\ call.fn = "calculate_emissions_and_production"
       => /\ Lacks(call.csv, call.scenario) => ret = Raise(NotFoundError)
          /\ ret.err = NoError
               => DOMAIN ret.val = {"emissions", "production_2022", "production_discounted"}
          /\ ret.err # NoError => ret.val = NoValue
  /\ call.fn = "calculate_cost_and_benefit"
       => /\ (Lacks(call.csv, CurrentPolicies) \/ Lacks(call.csv, NetZero2050))
               => ret = Raise(NotFoundError)
          /\ ret.err = NoError
               => DOMAIN ret.val = {"avoided_emissions", "cost", "benefit", "coal_prod_2022"}
          /\ ret.err # NoError => ret.val = NoValue

LookupFailsWholeSeen ==
  /\ call.fn = "calculate_emissions_and_production"
  /\ call.scenario = NetZero2050
  /\ ~Lacks(CSV_DATA, call.scenario)
  /\ \A i \in DOMAIN call.csv :
       ~(call.csv[i].Scenario = NetZero2050 /\ call.csv[i].Variable = Coal)
  /\ \E i \in DOMAIN call.csv :
       call.csv[i].Scenario = NetZero2050 /\ call.csv[i].Variable = Emissions
  /\ ret = Raise(NotFoundError)

\* the stored (million tonnes) emissions series of the call under way
CalledEmissions == StoredSeries(call.scenario, Emissions)

\* C4 as stated: aggregate_emissions with reference year 2022 and reference
\* value 15.5 returns the sum of interpolate(series, y) over y = 2023..2100
\* divided by 1000, times reference_value / interpolate(series, 2022), the
\* series being the stored million-tonne series
RescaledByStoredUnitRatio ==
  (call.fn = "aggregate_emissions" /\ call.reference_year = 2022
     /\ call.reference_value = <<31, 2>>)
    => ret = Ok(RMul(RDiv(SumLine(CalledEmissions, 2023, 2100), RInt(1000)),
                     RDiv(call.reference_value, Line(CalledEmissions, 2022))))

\* C4 as amended: aggregate_emissions returns the sum of interpolate(series, y)
\* over y = 2023..2100 divided by 1000, times
\* reference_value / (interpolate(series, reference_year) / 1000): the value
\* at the reference year is converted to gigatonnes as the sum is (stated for
\* every reference year in the knot range, 2022 with 15.5 among them)
RescaledByGigatonneRatio ==
  (call.fn = "aggregate_emissions" /\ 2010 <= call.reference_year
     /\ call.reference_year <= 2100)
    => ret = Ok(RMul(RDiv(SumLine(CalledEmissions, 2023, 2100), RInt(1000)),
                     RDiv(call.reference_value,
                          RDiv(Line(CalledEmissions, call.reference_year), RInt(1000)))))

RescaledByGigatonneRatioSeen ==
  /\ call.fn = "aggregate_emissions"
  /\ call.scenario = CurrentPolicies
  /\ call.reference_year = 2022
  /\ call.reference_value = <<31, 2>>
  /\ ret = Ok(<<103571, 112>>)

\* C5 as stated: with reference_value equal to the raw interpolated value of
\* the stored series at 2022, aggregate_emissions returns the unscaled sum
\* over 2023..2100 (the gigatonne sum; the scaling factor is 1)
RawAnchorLeavesSumUnscaled ==
  (call.fn = "aggregate_emissions" /\ call.reference_year = 2022
     /\ call.reference_value = Line(CalledEmissions, 2022))
    => ret = Ok(RDiv(SumLine(CalledEmissions, 2023, 2100), RInt(1000)))

\* C5 as amended: with reference_value equal to the interpolated value at the
\* reference year converted to gigatonnes (the raw value / 1000),
\* aggregate_emissions returns the unscaled gigatonne sum over 2023..2100
\* (the scaling factor is 1)
GigatonneAnchorLeavesSumUnscaled ==
  (call.fn = "aggregate_emissions" /\ 2010 <= call.reference_year
     /\ call.reference_year <= 2100
     /\ call.reference_value
          = RDiv(Line(CalledEmissions, call.reference_year), RInt(1000)))
    => ret = Ok(RDiv(SumLine(CalledEmissions, 2023, 2100), RInt(1000)))

GigatonneAnchorLeavesSumUnscaledSeen ==
  /\ call.fn = "aggregate_emissions"
  /\ call.scenario = NetZero2050
  /\ call.reference_year = 2022
  /\ call.reference_value = <<162, 5>>
  /\ ret = Ok(<<7353, 10>>)

\* C6: discount_rate(0) = lambda*rho_f*(1-tax_rate) + (1-lambda)*rho_f, and
\* for every beta discount_rate(beta) - discount_rate(0)
\* = beta*(1-lambda)*(carp_base - surcharge); every call returns a number
RhoLinearInBeta ==
  call.fn = "calculate_rho"
    => LET rho_0 == DecAdd(DecMul(DecMul(lambda, rho_f), DecSub(DecOne, tax_rate)),
                           DecMul(DecSub(DecOne, lambda), rho_f))
       IN  /\ DOMAIN ret = {"neg", "mag", "f"}
           /\ DecSign(call.beta) = 0 => ret = rho_0
           /\ DecSub(ret, rho_0)
                = DecMul(DecMul(call.beta, DecSub(DecOne, lambda)),
                         DecSub(carp_base, surcharge))

RhoLinearInBetaSeen ==
  /\ call.fn = "calculate_rho"
  /\ call.beta = BetaOfStep(150)
  /\ DecLess(calculate_rho(DecZero), ret)

(***************************************************************************)
(* The claims about the app.                                               *)
(***************************************************************************)
\* C7: for the embedded dataset every run, whatever scc, lcoe and beta are,
\* yields avoided_emissions > 0, and it is the current-policies total minus
\* the net-zero total, each scenario's own 2023..2100 sum rescaled by
\* 15.5 / (its own interpolated 2022 value)
AvoidedEmissionsPositive ==
  /\ result.err = NoError
  /\ RSign(result.val.avoided_emissions) = 1
  /\ result.val.avoided_emissions
       = RSub(RescaledTotal(CurrentPolicies), RescaledTotal(NetZero2050))

AvoidedEmissionsPositiveSeen ==
  /\ runs > 0
  /\ slider_scc # SccDefault /\ slider_beta # BetaDefault
  /\ result.err = NoError
  /\ RSign(result.val.avoided_emissions) = 1

YearsInsideKnotRange ==
  /\ \A y \in evaluated.years : 2010 <= y /\ y <= 2100
  /\ \A h \in history : h.result.err # DomainError
  /\ result.err = NoError
  /\ \A d \in evaluated.deltats : d >= 1

YearsInsideKnotRangeSeen ==
  /\ runs > 0
  /\ result.err = NoError
  /\ {2022, 2023, 2100} \subseteq evaluated.years
  /\ {1, 78} \subseteq evaluated.deltats

\* C10: for the embedded dataset current-policies coal is at least net-zero
\* coal at every year 2023..2100, every discount factor is positive, and the
\* cost of every run with lcoe >= 0 and beta in [0, 2] is >= 0, and is 0
\* when lcoe = 0
CostNeverNegative ==
  /\ \A y \in 2023..2100 :
       RLeq(Line(StoredSeries(NetZero2050, Coal), y),
            Line(StoredSeries(CurrentPolicies, Coal), y))
  /\ \A d \in evaluated.deltats :
       DecSign(calculate_discount(calculate_rho(slider_beta), d)) = 1
  /\ (DecSign(slider_lcoe) >= 0 /\ DecSign(slider_beta) >= 0
        /\ ~DecLess(DecInt(2), slider_beta))
       => /\ result.err = NoError
          /\ DecSign(result.val.cost) >= 0
          /\ (DecSign(slider_lcoe) = 0 => DecSign(result.val.cost) = 0)

CostNeverNegativeSeen ==
  /\ \E h \in history : DecSign(h.lcoe) = 1 /\ DecSign(h.result.val.cost) = 1
  /\ runs > 0
  /\ DecSign(slider_lcoe) = 0 /\ slider_beta = DecInt(2)
  /\ DecSign(result.val.cost) = 0

====
